---- MODULE Spec2Model ----
(***************************************************************************)
(* Model of AppWindow (src/app.py): the Qt widget that owns the           *)
(* conversation history, its two slots run_search and reset_search, the   *)
(* agent call made by run_search, and the Qt event loop that delivers the *)
(* user's key presses and button clicks to the slots.                      *)
(*                                                                         *)
(* Text is a sequence of one-character strings, so that the f-strings of  *)
(* run_search are real concatenations and the URL handed to the browser   *)
(* can be split again.  A turn of the conversation is the group of        *)
(* messages that one agent run adds to the message history: the user      *)
(* prompt and the structured answer.                                       *)
(***************************************************************************)
EXTENDS Naturals, Sequences, FiniteSets

VARIABLES input_field, log_window, status_bar, message_history,
          queue, frames, last, succeeded, alive

vars == <<input_field, log_window, status_bar, message_history,
          queue, frames, last, succeeded, alive>>

\* ------------------------------------------------------------------ bounds
MaxTurns == 2
MaxQueue == 2

\* ------------------------------------------------------------- text values
\* The texts the user types: empty, whitespace only, and a text with a
\* character that is reserved in a URL.
Texts == { <<>>, <<" ">>, <<"c","#">> }

\* A query the generator builds by itself (besides echoing the input).
Queries == { <<"a","&","b">> }

\* The text of an UnexpectedModelBehavior exception.
ErrorTexts == { <<"e">> }

SearchUrlPrefix ==
  <<"h","t","t","p","s",":","/","/","w","w","w",".","g","o","o","g","l","e",".","c","o","m","/","s","e","a","r","c","h","?","q","=">>

LogPrefix ==
  <<"S","e","a","r","c","h"," ","q","u","e","r","y",":"," ">>

OpeningPrefix ==
  <<"O","p","e","n","i","n","g"," ","b","r","o","w","s","e","r"," ","w","i","t","h"," ","q","u","e","r","y",":"," ">>

OpeningSuffix ==
  <<".",".",".">>

ErrorPrefix ==
  <<"E","r","r","o","r",":"," ">>

\* ------------------------------------------------------- pure functions
\* f'Search query: {search_query}'
LogLine_dropLast(search_query) ==
  LogPrefix \o SubSeq(search_query, 1, Len(search_query) - 1)

LogLine(search_query) ==
  LogPrefix \o search_query

\* f'Opening browser with query: {search_query}...'
StatusOpening(search_query) ==
  OpeningPrefix \o search_query \o OpeningSuffix

\* f'Error: {e}'
StatusError(e) ==
  ErrorPrefix \o e

\* f'https://www.google.com/search?q={search_query}': the text is pasted
\* after the prefix as it is, nothing is percent-encoded.
SearchUrl(search_query) ==
  SearchUrlPrefix \o search_query

\* res.data of a finished run, and the exceptions run_sync can end with.
NoResult ==
  [kind |-> "none", search_query |-> <<>>, message |-> <<>>]

SearchQuery(q) ==
  [kind |-> "SearchQuery", search_query |-> q, message |-> <<>>]

UnexpectedModelBehavior(m) ==
  [kind |-> "UnexpectedModelBehavior", search_query |-> <<>>, message |-> m]

\* Any exception that is not an UnexpectedModelBehavior: the client's
\* connection error when the model cannot be reached.
ConnectionError ==
  [kind |-> "ConnectionError", search_query |-> <<>>, message |-> <<>>]

\* isinstance(res.data, SearchQuery)
IsSearchQuery(res) ==
  res.kind = "SearchQuery"

\* The arguments of agent.run_sync(user_input, message_history=...).
RunSync_noHistory(user_input, history) ==
  [input |-> user_input, history |-> <<>>]

RunSync(user_input, history) ==
  [input |-> user_input, history |-> history]

\* res.all_messages(): the history the run was given, followed by the
\* messages of this run.
AllMessages_front(request, res) ==
  <<[input |-> request.input, output |-> res.search_query]>> \o request.history

AllMessages_noInput(request, res) ==
  Append(request.history, [input |-> <<>>, output |-> res.search_query])

AllMessages(request, res) ==
  Append(request.history, [input |-> request.input, output |-> res.search_query])

\* ---------------------------------------------------------------- events
\* What the user can do to the window: type a text into the line edit,
\* press return in it, click Search, click Reset.
KeyEvents    == { [type |-> "text", text |-> t] : t \in Texts }
ReturnPressed == [type |-> "returnPressed", text |-> <<>>]
SearchClicked == [type |-> "search_button.clicked", text |-> <<>>]
ResetClicked  == [type |-> "reset_button.clicked", text |-> <<>>]
Events == KeyEvents \cup {ReturnPressed, SearchClicked, ResetClicked}

\* One activation of a slot.  before is message_history when the slot was
\* entered, request the arguments given to the agent, genCalls the number
\* of agent calls made, logged the lines appended to the log window, urls
\* the URLs given to the browser and shown the status message set, all by
\* this activation.
NoRequest == [input |-> <<>>, history |-> <<>>]

NoCall ==
  [op |-> "none", pc |-> "done", user_input |-> <<>>, before |-> <<>>,
   request |-> NoRequest, genCalls |-> 0, res |-> NoResult,
   logged |-> <<>>, urls |-> <<>>, shown |-> <<>>]

Top == frames[Len(frames)]
Pop == SubSeq(frames, 1, Len(frames) - 1)
ReplaceTop(f) == [frames EXCEPT ![Len(frames)] = f]

\* app.exec(): the event loop takes the next event only when it has
\* control; run_sync does not return to it before the run is over.
CanDispatch_reentrant ==
  TRUE

CanDispatch ==
  frames = <<>>

\* ------------------------------------------------------------------ Init
Init ==
  /\ input_field = <<>>
  /\ log_window = <<>>
  /\ status_bar = <<>>
  /\ message_history = <<>>
  /\ queue = <<>>
  /\ frames = <<>>
  /\ last = NoCall
  /\ succeeded = <<>>
  /\ alive = TRUE

\* --------------------------------------------------------------- actions
\* The user acts on the window; Qt queues the event.
UserEvent ==
  /\ alive
  /\ Len(queue) < MaxQueue
  /\ \E e \in Events : queue' = Append(queue, e)
  /\ UNCHANGED <<input_field, log_window, status_bar, message_history,
                 frames, last, succeeded, alive>>

\* QLineEdit takes the typed text.
EditText ==
  /\ alive
  /\ CanDispatch
  /\ queue # <<>>
  /\ Head(queue).type = "text"
  /\ input_field' = Head(queue).text
  /\ queue' = Tail(queue)
  /\ UNCHANGED <<log_window, status_bar, message_history, frames, last,
                 succeeded, alive>>

\* AppWindow.reset_search
reset_search_keep ==
  /\ alive
  /\ CanDispatch
  /\ queue # <<>>
  /\ Head(queue) = ResetClicked
  /\ queue' = Tail(queue)
  /\ input_field' = <<>>
  /\ log_window' = <<>>
  /\ status_bar' = <<>>
  /\ succeeded' = <<>>
  /\ last' = [NoCall EXCEPT !.op = "reset_search", !.before = message_history]
  /\ UNCHANGED <<message_history, frames, alive>>

reset_search ==
  /\ alive
  /\ CanDispatch
  /\ queue # <<>>
  /\ Head(queue) = ResetClicked
  /\ queue' = Tail(queue)
  /\ input_field' = <<>>
  /\ log_window' = <<>>
  /\ status_bar' = <<>>
  /\ message_history' = <<>>
  /\ succeeded' = <<>>
  /\ last' = [NoCall EXCEPT !.op = "reset_search", !.before = message_history]
  /\ UNCHANGED <<frames, alive>>

\* AppWindow.run_search up to the agent call: reads the line edit and
\* calls agent.run_sync with the text and the history.
run_search_rejectBlank ==
  /\ alive
  /\ CanDispatch
  /\ queue # <<>>
  /\ Head(queue) \in {ReturnPressed, SearchClicked}
  /\ queue' = Tail(queue)
  /\ IF input_field \in { <<>>, <<" ">> }
       THEN /\ last' = [NoCall EXCEPT !.op = "run_search",
                                      !.user_input = input_field,
                                      !.before = message_history]
            /\ UNCHANGED frames
       ELSE /\ frames' = Append(frames,
                 [NoCall EXCEPT !.op = "run_search", !.pc = "run_sync",
                                !.user_input = input_field,
                                !.before = message_history,
                                !.request = RunSync(input_field, message_history),
                                !.genCalls = 1])
            /\ UNCHANGED last
  /\ UNCHANGED <<input_field, log_window, status_bar, message_history,
                 succeeded, alive>>

run_search ==
  /\ alive
  /\ CanDispatch
  /\ queue # <<>>
  /\ Head(queue) \in {ReturnPressed, SearchClicked}
  /\ queue' = Tail(queue)
  /\ frames' = Append(frames,
       [NoCall EXCEPT !.op = "run_search", !.pc = "run_sync",
                      !.user_input = input_field,
                      !.before = message_history,
                      !.request = RunSync(input_field, message_history),
                      !.genCalls = 1])
  /\ UNCHANGED <<input_field, log_window, status_bar, message_history,
                 last, succeeded, alive>>

\* run_sync returns a result.  The agent is built with
\* result_type=SearchQuery (line 60), so the data of a returned result is a
\* SearchQuery: the input as it is, or a query the model built.
run_sync_returns ==
  /\ alive
  /\ frames # <<>>
  /\ Top.pc = "run_sync"
  /\ Len(Top.request.history) < MaxTurns
  /\ \E q \in Queries \cup {Top.request.input} :
       /\ frames' = ReplaceTop([Top EXCEPT !.pc = "returned", !.res = SearchQuery(q)])
       /\ succeeded' = Append(succeeded, [input |-> Top.request.input, output |-> q])
  /\ UNCHANGED <<input_field, log_window, status_bar, message_history,
                 queue, last, alive>>

\* run_search after the agent call, lines 206-210: the log line, the
\* status message and the browser.
show_and_open ==
  /\ alive
  /\ frames # <<>>
  /\ Top.pc = "returned"
  /\ IF IsSearchQuery(Top.res)
       THEN /\ log_window' = Append(log_window, LogLine(Top.res.search_query))
            /\ status_bar' = StatusOpening(Top.res.search_query)
            /\ frames' = ReplaceTop([Top EXCEPT
                 !.pc = "opened",
                 !.logged = Append(@, LogLine(Top.res.search_query)),
                 !.shown = StatusOpening(Top.res.search_query),
                 !.urls = Append(@, SearchUrl(Top.res.search_query))])
       ELSE /\ frames' = ReplaceTop([Top EXCEPT !.pc = "opened"])
            /\ UNCHANGED <<log_window, status_bar>>
  /\ UNCHANGED <<input_field, message_history, queue, last, succeeded, alive>>

\* run_search line 211 and the return to the event loop.
store_history ==
  /\ alive
  /\ frames # <<>>
  /\ Top.pc = "opened"
  /\ IF IsSearchQuery(Top.res)
       THEN message_history' = AllMessages(Top.request, Top.res)
       ELSE UNCHANGED message_history
  /\ last' = [Top EXCEPT !.pc = "done"]
  /\ frames' = Pop
  /\ UNCHANGED <<input_field, log_window, status_bar, queue, succeeded, alive>>

\* run_sync raises UnexpectedModelBehavior; the except clause of
\* run_search shows it in the status bar.
except_recordTurn ==
  /\ alive
  /\ frames # <<>>
  /\ Top.pc = "run_sync"
  /\ \E m \in ErrorTexts :
       /\ status_bar' = StatusError(m)
       /\ last' = [Top EXCEPT !.pc = "done", !.res = UnexpectedModelBehavior(m),
                              !.shown = StatusError(m)]
       /\ message_history' = Append(Top.request.history,
                                    [input |-> Top.request.input, output |-> m])
  /\ frames' = Pop
  /\ UNCHANGED <<input_field, log_window, queue, succeeded, alive>>

except_UnexpectedModelBehavior ==
  /\ alive
  /\ frames # <<>>
  /\ Top.pc = "run_sync"
  /\ \E m \in ErrorTexts :
       /\ status_bar' = StatusError(m)
       /\ last' = [Top EXCEPT !.pc = "done", !.res = UnexpectedModelBehavior(m),
                              !.shown = StatusError(m)]
  /\ frames' = Pop
  /\ UNCHANGED <<input_field, log_window, message_history, queue,
                 succeeded, alive>>

\* run_sync raises an exception that is not an UnexpectedModelBehavior.
\* No except clause of run_search matches, the exception leaves the slot,
\* and PyQt6 ends the process for an exception that leaves a slot.
uncaught_exception ==
  /\ alive
  /\ frames # <<>>
  /\ Top.pc = "run_sync"
  /\ last' = [Top EXCEPT !.pc = "done", !.res = ConnectionError]
  /\ frames' = <<>>
  /\ alive' = FALSE
  /\ UNCHANGED <<input_field, log_window, status_bar, message_history,
                 queue, succeeded>>

Next ==
  \/ UserEvent
  \/ EditText
  \/ reset_search
  \/ run_search
  \/ run_sync_returns
  \/ show_and_open
  \/ store_history
  \/ except_UnexpectedModelBehavior
  \/ uncaught_exception

Spec == Init /\ [][Next]_vars

\* ------------------------------------------------------ helpers of claims
IsPrefix(s, t) ==
  /\ Len(s) <= Len(t)
  /\ SubSeq(t, 1, Len(s)) = s

StripPrefix(p, s) ==
  SubSeq(s, Len(p) + 1, Len(s))

\* The longest prefix of s without a character of stop.
RECURSIVE TakeUntil(_, _)
TakeUntil(s, stop) ==
  IF s = <<>> \/ Head(s) \in stop
    THEN <<>>
    ELSE <<Head(s)>> \o TakeUntil(Tail(s), stop)

\* The value of the q parameter of a search URL as its receiver reads it:
\* the text after "?q=" up to the next parameter ("&") or the fragment ("#").
QueryParameter(url) ==
  TakeUntil(StripPrefix(SearchUrlPrefix, url), {"&", "#"})

Succeeded(call) == call.op = "run_search" /\ IsSearchQuery(call.res)
Failed(call) ==
  call.op = "run_search" /\ call.res.kind \in {"UnexpectedModelBehavior", "ConnectionError"}

\* ---------------------------------------------------------------- claims
\* C1: after a run_search in which the generator returned a structured
\* result, message_history holds exactly one more turn than when the call
\* started, and the input of its last turn is the submitted text.
C1_SuccessAppendsOneTurn ==
  Succeeded(last) =>
    /\ Len(message_history) = Len(last.before) + 1
    /\ message_history[Len(message_history)].input = last.user_input

C1_Witness ==
  /\ Succeeded(last)
  /\ last.before # <<>>
  /\ last.user_input # <<>>
  /\ last.user_input # last.before[1].input

\* C2: after a run_search in which the generator failed, message_history is
\* the same sequence as when the call started (empty if it was empty).
C2_FailureLeavesState ==
  Failed(last) => message_history = last.before

C2_Witness ==
  /\ Failed(last)
  /\ last.res.kind = "UnexpectedModelBehavior"
  /\ last.before # <<>>

\* C3: every failed run_search, whichever way the generator failed, ends
\* with an error message shown to the caller and a process that lives on.
C3_EveryFailureReported ==
  Failed(last) =>
    /\ last.shown = StatusError(last.res.message)
    /\ alive

\* C4: after reset_search the history is empty whatever it held, and the
\* run_search that follows hands an empty history to the generator.
C4_ResetEmpties ==
  last.op = "reset_search" =>
    /\ message_history = <<>>
    /\ \A i \in DOMAIN frames : frames[i].request.history = <<>>

C4_Witness ==
  /\ last.op = "reset_search"
  /\ Len(last.before) = MaxTurns
  /\ frames # <<>>
  /\ Top.pc = "run_sync"

\* C5: every step other than reset_search leaves message_history a prefix
\* of its new value, and between handlers message_history is the sequence
\* of the turns of the successful calls since the last reset, in order.
ResetStep ==
  /\ CanDispatch
  /\ queue # <<>>
  /\ Head(queue) = ResetClicked
  /\ message_history' = <<>>

C5_AppendOnlyInOrder ==
  /\ [](frames = <<>> => message_history = succeeded)
  /\ [][IsPrefix(message_history, message_history') \/ ResetStep]_vars

C5_Witness ==
  /\ Succeeded(last)
  /\ Len(message_history) = 2
  /\ message_history[1].input # message_history[2].input
  /\ frames = <<>>

\* C6: the history a run_search hands to the generator is message_history
\* as it is when the call starts: the turns of the successful calls since
\* the last reset, without the call in progress or any failed call.
C6_FullHistoryPassed ==
  \A i \in DOMAIN frames :
    /\ frames[i].request.input = frames[i].user_input
    /\ frames[i].request.history = frames[i].before
    /\ frames[i].pc = "run_sync" =>
         /\ frames[i].request.history = succeeded
         /\ message_history = succeeded

C6_Witness ==
  /\ frames # <<>>
  /\ Top.pc = "run_sync"
  /\ Top.request.history # <<>>
  /\ Failed(last)

\* C7: the query text a successful run_search shows (log line, status
\* message) and records is the text the generator returned, unchanged.
C7_QueryTextUnaltered ==
  Succeeded(last) =>
    /\ Len(last.logged) = 1
    /\ IsPrefix(LogPrefix, last.logged[1])
    /\ StripPrefix(LogPrefix, last.logged[1]) = last.res.search_query
    /\ last.shown = OpeningPrefix \o last.res.search_query \o OpeningSuffix
    /\ message_history # <<>>
    /\ message_history[Len(message_history)].output = last.res.search_query

C7_Witness ==
  /\ Succeeded(last)
  /\ last.res.search_query = last.user_input
  /\ Len(last.user_input) > 1

\* C8: at most one run_search is active at a time, so at most one
\* generation is in flight and none starts before the earlier one ended.
C8_OneInFlight ==
  /\ Len(frames) <= 1
  /\ Cardinality({i \in DOMAIN frames : frames[i].pc = "run_sync"}) <= 1

C8_Witness ==
  /\ frames # <<>>
  /\ Top.pc = "run_sync"
  /\ queue # <<>>
  /\ Head(queue) \in {ReturnPressed, SearchClicked}

\* C9: every run_search calls the generator exactly once, for every input
\* (empty and blank included) and also when the call fails.
C9_OneGeneratorCall ==
  /\ last.op = "run_search" => last.genCalls = 1
  /\ \A i \in DOMAIN frames : frames[i].genCalls = 1

C9_Witness ==
  /\ Failed(last)
  /\ last.user_input \in { <<>>, <<" ">> }
  /\ last.genCalls = 1

\* C10: a successful run_search opens the browser exactly once, on the
\* search URL whose q parameter is the returned query text; a failed
\* run_search and reset_search never open it; message_history is not
\* updated before the browser call.
C10_BrowserOpenedWithQuery ==
  /\ Succeeded(last) =>
       /\ Len(last.urls) = 1
       /\ IsPrefix(SearchUrlPrefix, last.urls[1])
       /\ QueryParameter(last.urls[1]) = last.res.search_query
  /\ (Failed(last) \/ last.op = "reset_search") => last.urls = <<>>
  /\ \A i \in DOMAIN frames :
       /\ frames[i].pc \in {"run_sync", "returned"} => frames[i].urls = <<>>
       /\ message_history = frames[i].before

\* The part of C10 that does not depend on how the URL is read.
BrowserOpenedOncePerSuccess ==
  /\ Succeeded(last) =>
       /\ Len(last.urls) = 1
       /\ last.urls[1] = SearchUrlPrefix \o last.res.search_query
  /\ (Failed(last) \/ last.op = "reset_search") => last.urls = <<>>
  /\ \A i \in DOMAIN frames :
       /\ frames[i].pc \in {"run_sync", "returned"} => frames[i].urls = <<>>
       /\ message_history = frames[i].before

====
